---- MODULE Spec2Model ----
(***************************************************************************)
(* The department roster command loop of src/13_collections_hashmap.rs     *)
(* (main, lines 114-201), and fibonacci_sequence of src/06_flow_control.rs *)
(* (lines 105-120).                                                        *)
(*                                                                         *)
(* Strings are sequences of character codes (ASCII), so that the byte-wise *)
(* ordering used by sort() and the exact, case-sensitive comparison used   *)
(* by the slice patterns are computed and not assumed.                     *)
(***************************************************************************)
EXTENDS Integers, Sequences, FiniteSets, TLC

VARIABLES
    departments,  \* HashMap<String, Vec<String>> (line 114)
    state,        \* position of main: "Running" inside the loop, "Terminated" after it
    panicked,     \* TRUE once .expect() on read_line has panicked (line 125)
    input,        \* the String read by this iteration (lines 121-125)
    words,        \* Vec<&str> of this iteration (line 130)
    arm,          \* the match arm this iteration ran (lines 134-200); "None" before the first
    output,       \* the lines this iteration printed
    history,      \* log of the Add arms run so far, <<name, department>> (line 137)
    repeated,     \* TRUE iff this iteration's words equal the previous iteration's
    piped,        \* TRUE iff standard input is a pipe with fixed content, FALSE for a terminal
    stdin,        \* the lines of the pipe (empty for a terminal)
    pos,          \* number of lines of the pipe read so far
    fib,          \* the call of fibonacci_sequence: its argument, locals and position
    call          \* the call of one of the other functions: arguments, locals, result

rosterVars == <<departments, state, panicked, input, words, arm, output, history,
                repeated, piped, stdin, pos>>

vars == <<departments, state, panicked, input, words, arm, output, history, repeated,
          piped, stdin, pos, fib, call>>

----------------------------------------------------------------------------
(* Bounds *)

MaxAdds == 3          \* number of Add commands executed in one run
MaxScript == 3        \* number of lines in a pipe on standard input
MaxFibN == 48         \* largest argument n of fibonacci_sequence
MaxLen == 4           \* longest slice passed to calculate_median, calculate_mode
MaxChars == 3         \* longest string of ParseChars passed to parse_positive_integer
MaxSlice == 4         \* longest slice passed to filter

----------------------------------------------------------------------------
(* String literals, as character codes *)

TokAdd  == <<65, 100, 100>>                 \* "Add"
TokTo   == <<116, 111>>                     \* "to"
TokList == <<76, 105, 115, 116>>            \* "List"
TokAll  == <<65, 108, 108>>                 \* "All"
TokQuit == <<81, 117, 105, 116>>            \* "Quit"

Amir        == <<65, 109, 105, 114>>
Bob         == <<66, 111, 98>>
Sally       == <<83, 97, 108, 108, 121>>
Smith       == <<83, 109, 105, 116, 104>>
Sales       == <<83, 97, 108, 101, 115>>
Engineering == <<69, 110, 103, 105, 110, 101, 101, 114, 105, 110, 103>>
Marketing   == <<77, 97, 114, 107, 101, 116, 105, 110, 103>>
LowerAdd    == <<97, 100, 100>>             \* "add"
LowerAll    == <<97, 108, 108>>             \* "all"
LowerList   == <<108, 105, 115, 116>>       \* "list"
LowerQuit   == <<113, 117, 105, 116>>       \* "quit"
LowerSales  == <<115, 97, 108, 101, 115>>   \* "sales"
UpperTo     == <<84, 79>>                   \* "TO"
Now         == <<110, 111, 119>>            \* "now"

SP == <<32>>
HT == <<9>>
NL == <<10>>

----------------------------------------------------------------------------
(* Input lines the user may type *)

RECURSIVE Join(_)
Join(ts) ==
    IF ts = <<>> THEN <<>>
    ELSE IF Len(ts) = 1 THEN ts[1]
    ELSE ts[1] \o SP \o Join(Tail(ts))

Names == {Amir, Bob}
Depts == {Sales, Engineering, TokAll}

AddLines  ==
    {Join(<<TokAdd, n, TokTo, d>>) \o NL : n \in Names, d \in Depts}
        \cup {Join(<<TokAdd, Sally, TokTo, Engineering>>) \o NL}
        \cup {Join(<<TokAdd, Bob, TokTo, LowerSales>>) \o NL}
ListLines == {Join(<<TokList, d>>) \o NL : d \in Depts \cup {Marketing, LowerAll}}
OtherLines ==
    { TokQuit \o NL,
      <<>>,                                                     \* end of input: zero bytes
      NL,                                                       \* empty line
      SP \o HT \o NL,                                           \* blank line
      Join(<<LowerAdd, Bob, TokTo, Sales>>) \o NL,              \* "add Bob to Sales"
      Join(<<TokAdd, Bob, UpperTo, Sales>>) \o NL,              \* "Add Bob TO Sales"
      Join(<<LowerList, LowerAll>>) \o NL,                      \* "list all"
      LowerQuit \o NL,                                          \* "quit"
      Join(<<TokAdd, Sally, Smith, TokTo, Engineering>>) \o NL, \* five tokens
      Join(<<TokList, Sales, Bob>>) \o NL,                      \* three tokens
      Join(<<TokQuit, Now>>) \o NL,                             \* "Quit now"
      Join(<<Bob>>) \o NL,                                      \* one token, not Quit
      SP \o SP \o TokList \o HT \o SP \o TokAll \o SP \o NL,    \* "  List\t All \n"
      TokList \o SP \o SP \o Sales,                             \* "List  Sales", no newline
      HT \o TokAdd \o SP \o Bob \o HT \o TokTo \o SP \o SP \o Sales \o SP \o NL }

Lines == AddLines \cup ListLines \cup OtherLines

----------------------------------------------------------------------------
(* str::trim and str::split_whitespace (line 130) *)

IsWhitespace(c) == c \in {9, 10, 11, 12, 13, 32}

RECURSIVE trim_start(_)
trim_start(s) ==
    IF s # <<>> /\ IsWhitespace(s[1]) THEN trim_start(Tail(s)) ELSE s

RECURSIVE trim_end(_)
trim_end(s) ==
    IF s # <<>> /\ IsWhitespace(s[Len(s)])
    THEN trim_end(SubSeq(s, 1, Len(s) - 1))
    ELSE s

trim(s) == trim_end(trim_start(s))

\* cur is the token being accumulated, acc the tokens already produced
RECURSIVE SplitFrom(_, _, _)
SplitFrom(s, cur, acc) ==
    IF s = <<>>
    THEN IF cur = <<>> THEN acc ELSE Append(acc, cur)
    ELSE IF IsWhitespace(s[1])
         THEN SplitFrom(Tail(s), <<>>, IF cur = <<>> THEN acc ELSE Append(acc, cur))
         ELSE SplitFrom(Tail(s), Append(cur, s[1]), acc)

split_whitespace(s) == SplitFrom(s, <<>>, <<>>)

\* str::split(' '): a piece for every single space, empty pieces included
RECURSIVE SplitOnSpaceFrom(_, _, _)
SplitOnSpaceFrom(s, cur, acc) ==
    IF s = <<>> THEN Append(acc, cur)
    ELSE IF s[1] = 32
         THEN SplitOnSpaceFrom(Tail(s), <<>>, Append(acc, cur))
         ELSE SplitOnSpaceFrom(Tail(s), Append(cur, s[1]), acc)

\* input.split(' '), the line neither trimmed nor split on runs
Tokenize_untrimmed(line) == SplitOnSpaceFrom(line, <<>>, <<>>)

\* input.trim().split(' ')
Tokenize_split_on_space(line) == SplitOnSpaceFrom(trim(line), <<>>, <<>>)

Tokenize(line) == split_whitespace(trim(line))

----------------------------------------------------------------------------
(* Ord for String, and slice::sort (lines 154, 160, 179) *)

RECURSIVE StrLess(_, _)
StrLess(a, b) ==
    IF a = <<>> THEN b # <<>>
    ELSE IF b = <<>> THEN FALSE
    ELSE IF a[1] # b[1] THEN a[1] < b[1]
    ELSE StrLess(Tail(a), Tail(b))

\* insert x behind every element that is not greater than x (stable)
RECURSIVE InsertSorted(_, _)
InsertSorted(x, s) ==
    IF s = <<>> THEN <<x>>
    ELSE IF StrLess(x, s[1]) THEN <<x>> \o s
    ELSE <<s[1]>> \o InsertSorted(x, Tail(s))

RECURSIVE SortFrom(_, _)
SortFrom(v, acc) ==
    IF v = <<>> THEN acc ELSE SortFrom(Tail(v), InsertSorted(v[1], acc))

\* the call to sort() left out
sort_skipped(v) == v

sort(v) == SortFrom(v, <<>>)

----------------------------------------------------------------------------
(* The slice patterns of match words.as_slice(), in source order            *)
(* (lines 136, 150, 169, 192, 197)                                          *)

\* ASCII case folding, for the variants that compare without regard to case
to_ascii_lowercase(s) ==
    [i \in 1..Len(s) |-> IF s[i] \in 65..90 THEN s[i] + 32 ELSE s[i]]

eq_ignore_ascii_case(a, b) == to_ascii_lowercase(a) = to_ascii_lowercase(b)

\* the keywords compared with eq_ignore_ascii_case
Match_ignore_case(w) ==
    IF Len(w) = 4 /\ eq_ignore_ascii_case(w[1], TokAdd) /\ eq_ignore_ascii_case(w[3], TokTo)
    THEN "Add"
    ELSE IF Len(w) = 2 /\ eq_ignore_ascii_case(w[1], TokList)
                       /\ eq_ignore_ascii_case(w[2], TokAll) THEN "ListAll"
    ELSE IF Len(w) = 2 /\ eq_ignore_ascii_case(w[1], TokList) THEN "ListOne"
    ELSE IF Len(w) = 1 /\ eq_ignore_ascii_case(w[1], TokQuit) THEN "Quit"
    ELSE "Invalid"

\* the patterns written with a rest pattern: ["Add", name, "to", department, ..],
\* ["List", "All", ..], ["List", department, ..], ["Quit", ..]
Match_rest_patterns(w) ==
    IF Len(w) >= 4 /\ w[1] = TokAdd /\ w[3] = TokTo THEN "Add"
    ELSE IF Len(w) >= 2 /\ w[1] = TokList /\ w[2] = TokAll THEN "ListAll"
    ELSE IF Len(w) >= 2 /\ w[1] = TokList THEN "ListOne"
    ELSE IF Len(w) >= 1 /\ w[1] = TokQuit THEN "Quit"
    ELSE "Invalid"

\* the ["List", department] pattern placed before ["List", "All"]
Match_list_one_first(w) ==
    IF Len(w) = 4 /\ w[1] = TokAdd /\ w[3] = TokTo THEN "Add"
    ELSE IF Len(w) = 2 /\ w[1] = TokList THEN "ListOne"
    ELSE IF Len(w) = 2 /\ w[1] = TokList /\ w[2] = TokAll THEN "ListAll"
    ELSE IF Len(w) = 1 /\ w[1] = TokQuit THEN "Quit"
    ELSE "Invalid"

Match(w) ==
    IF Len(w) = 4 /\ w[1] = TokAdd /\ w[3] = TokTo THEN "Add"
    ELSE IF Len(w) = 2 /\ w[1] = TokList /\ w[2] = TokAll THEN "ListAll"
    ELSE IF Len(w) = 2 /\ w[1] = TokList THEN "ListOne"
    ELSE IF Len(w) = 1 /\ w[1] = TokQuit THEN "Quit"
    ELSE "Invalid"

----------------------------------------------------------------------------
(* HashMap operations *)

EmptyMap == [k \in {} |-> <<>>]

\* push only when the name is not yet in the department
entry_or_insert_push_unique(deps, department, name) ==
    LET inserted == IF department \in DOMAIN deps
                    THEN deps
                    ELSE [k \in DOMAIN deps \cup {department} |->
                            IF k = department THEN <<>> ELSE deps[k]]
    IN  IF \E i \in 1..Len(inserted[department]) : inserted[department][i] = name
        THEN inserted
        ELSE [inserted EXCEPT ![department] = Append(@, name)]

\* insert(0, name) instead of push(name)
entry_or_insert_front(deps, department, name) ==
    LET inserted == IF department \in DOMAIN deps
                    THEN deps
                    ELSE [k \in DOMAIN deps \cup {department} |->
                            IF k = department THEN <<>> ELSE deps[k]]
    IN  [inserted EXCEPT ![department] = <<name>> \o @]

\* an absent department is inserted empty, the push done only on a present one
entry_or_insert_else_push(deps, department, name) ==
    IF department \in DOMAIN deps
    THEN [deps EXCEPT ![department] = Append(@, name)]
    ELSE [k \in DOMAIN deps \cup {department} |->
            IF k = department THEN <<>> ELSE deps[k]]

\* the key folded to lower case: entry(department.to_lowercase())
entry_or_insert_push_fold_case(deps, department, name) ==
    LET key      == to_ascii_lowercase(department)
        inserted == IF key \in DOMAIN deps
                    THEN deps
                    ELSE [k \in DOMAIN deps \cup {key} |->
                            IF k = key THEN <<>> ELSE deps[k]]
    IN  [inserted EXCEPT ![key] = Append(@, name)]

\* the push done on every Vec of the map (values_mut()) instead of the entry's
entry_or_insert_push_all(deps, department, name) ==
    LET inserted == IF department \in DOMAIN deps
                    THEN deps
                    ELSE [k \in DOMAIN deps \cup {department} |->
                            IF k = department THEN <<>> ELSE deps[k]]
    IN  [k \in DOMAIN inserted |-> Append(inserted[k], name)]

\* departments.entry(department).or_insert(Vec::new()).push(name)  (line 145)
\* departments.insert(department, vec![name]): an existing vector is replaced
entry_or_insert_push_replaces(deps, department, name) ==
    [d \in DOMAIN deps \cup {department} |->
        IF d = department THEN <<name>> ELSE deps[d]]

entry_or_insert_push(deps, department, name) ==
    LET inserted == IF department \in DOMAIN deps
                    THEN deps
                    ELSE [k \in DOMAIN deps \cup {department} |->
                            IF k = department THEN <<>> ELSE deps[k]]
    IN  [inserted EXCEPT ![department] = Append(@, name)]

\* departments.keys().collect(): every key once, in an order the map chooses
KeyOrders(deps) ==
    LET n == Cardinality(DOMAIN deps)
    IN  {f \in [1..n -> DOMAIN deps] : \A i, j \in 1..n : i # j => f[i] # f[j]}

----------------------------------------------------------------------------
(* The match arms: the store they leave and the lines they print *)

RECURSIVE EmployeeLines(_)
EmployeeLines(employees) ==
    IF employees = <<>> THEN <<>>
    ELSE << <<"employee", employees[1]>> >> \o EmployeeLines(Tail(employees))

\* the for loop of lines 156-165 over the sorted department names; the Index
\* of line 159 panics on a key the map does not hold, which ends the output
RECURSIVE DepartmentSections(_, _)
DepartmentSections(deps, sorted_departments) ==
    IF sorted_departments = <<>> THEN <<>>
    ELSE LET department == sorted_departments[1]
         IN  IF department \notin DOMAIN deps
             THEN << <<"panic", department>> >>
             ELSE LET employees == sort(deps[department])
                  IN  << <<"department", department>> >> \o EmployeeLines(employees)
                          \o DepartmentSections(deps, Tail(sorted_departments))

\* the thread panicked while it printed out
IndexPanicked(out) == \E i \in 1..Len(out) : out[i][1] = "panic"

\* empty names turned away with the usage line
AddArm_rejects_empty(deps, name, department) ==
    IF name = <<>> \/ department = <<>>
    THEN [ store |-> deps, out |-> << <<"usage", <<>>>> >> ]
    ELSE [ store |-> entry_or_insert_push(deps, department, name),
           out   |-> << <<"adding", name, department>>, <<"added", <<>>>> >> ]

AddArm(deps, name, department) ==
    [ store |-> entry_or_insert_push(deps, department, name),
      out   |-> << <<"adding", name, department>>, <<"added", <<>>>> >> ]

\* employees sorted through a mutable borrow of the map, without clone()
ListAllArm_sorts_in_place(deps, keys) ==
    LET sorted_departments == sort(keys)
    IN  [ store |-> [k \in DOMAIN deps |-> sort(deps[k])],
          out   |-> << <<"all", <<>>>> >> \o DepartmentSections(deps, sorted_departments) ]

\* the departments printed in the order keys() yields them
ListAllArm_map_order(deps, keys) ==
    [ store |-> deps,
      out   |-> << <<"all", <<>>>> >> \o DepartmentSections(deps, keys) ]

\* the names folded to lower case before they are sorted and looked up
ListAllArm_folds_keys(deps, keys) ==
    LET sorted_departments == sort([i \in 1..Len(keys) |-> to_ascii_lowercase(keys[i])])
    IN  [ store |-> deps,
          out   |-> << <<"all", <<>>>> >> \o DepartmentSections(deps, sorted_departments) ]

ListAllArm(deps, keys) ==
    LET sorted_departments == sort(keys)
    IN  [ store |-> deps,
          out   |-> << <<"all", <<>>>> >> \o DepartmentSections(deps, sorted_departments) ]

\* the loop runs over employees instead of sorted_employees
ListOneArm_prints_unsorted(deps, department) ==
    [ store |-> deps,
      out   |-> << <<"list", department>> >> \o
                (IF department \in DOMAIN deps
                 THEN EmployeeLines(deps[department])
                 ELSE << <<"notFound", department>> >>) ]

\* departments.entry(department).or_default() instead of departments.get(department)
ListOneArm_or_default(deps, department) ==
    LET inserted == IF department \in DOMAIN deps
                    THEN deps
                    ELSE [k \in DOMAIN deps \cup {department} |->
                            IF k = department THEN <<>> ELSE deps[k]]
    IN  [ store |-> inserted,
          out   |-> << <<"list", department>> >> \o
                    EmployeeLines(sort(inserted[department])) ]

ListOneArm(deps, department) ==
    [ store |-> deps,
      out   |-> << <<"list", department>> >> \o
                (IF department \in DOMAIN deps
                 THEN EmployeeLines(sort(deps[department]))
                 ELSE << <<"notFound", department>> >>) ]

----------------------------------------------------------------------------
(* The program *)

\* no call of fibonacci_sequence in progress
FibIdle ==
    [pc |-> "idle", n |-> 0, checks |-> FALSE, a |-> 0, b |-> 0, i |-> 0,
     out |-> <<>>, hint |-> FALSE, wrapped |-> FALSE]

\* no call of another function in progress
CallIdle == [fn |-> "none", pc |-> "idle"]

\* words of every line the user may type (line 130), tabulated once
Words == [l \in Lines |-> Tokenize(l)]

Init ==
    /\ departments = EmptyMap
    /\ state = "Running"
    /\ panicked = FALSE
    /\ input = <<>>
    /\ words = <<>>
    /\ arm = "None"
    /\ output = <<>>
    /\ history = <<>>
    /\ repeated = FALSE
    /\ piped = FALSE
    /\ stdin = <<>>
    /\ pos = 0
    /\ fib = FibIdle
    /\ call = CallIdle

\* what read_line appends to input: whatever the user types on a terminal, the
\* next line of a pipe, nothing (Ok(0)) once the pipe is exhausted
Delivered ==
    IF ~piped THEN Lines
    ELSE IF pos < Len(stdin) THEN {stdin[pos + 1]}
    ELSE {<<>>}

\* a first read_line whose line is thrown away before the one that is parsed
ReadLine_skips_line(line) ==
    /\ state = "Running"
    /\ line \in (IF ~piped THEN Lines
                 ELSE IF pos + 1 < Len(stdin) THEN {stdin[pos + 2]}
                 ELSE {<<>>})
    /\ pos' = IF piped /\ pos + 1 < Len(stdin) THEN pos + 2
              ELSE IF piped THEN Len(stdin) ELSE pos
    /\ UNCHANGED <<piped, stdin, fib, call>>
    /\ input' = line
    /\ words' = Words[line]
    /\ repeated' = (arm # "None" /\ Words[line] = words)
    /\ arm' = Match(Words[line])
    /\ panicked' = panicked

\* lines 121-130: read_line succeeded with `line`, which is tokenized
ReadLine(line) ==
    /\ state = "Running"
    /\ line \in Delivered
    /\ pos' = IF piped /\ pos < Len(stdin) THEN pos + 1 ELSE pos
    /\ UNCHANGED <<piped, stdin, fib, call>>
    /\ input' = line
    /\ words' = Words[line]
    /\ repeated' = (arm # "None" /\ Words[line] = words)
    /\ arm' = Match(Words[line])
    /\ panicked' = panicked

ArmAdd ==
    \E line \in Lines :
        /\ Match(Words[line]) = "Add"
        /\ Len(history) < MaxAdds
        /\ ReadLine(line)
        /\ LET w == Words[line]
               r == AddArm(departments, w[2], w[4])
           IN  /\ departments' = r.store
               /\ output' = r.out
               /\ history' = Append(history, <<w[2], w[4]>>)
        /\ state' = "Running"

ArmListAll ==
    \E line \in Lines :
        /\ Match(Words[line]) = "ListAll"
        /\ ReadLine(line)
        /\ \E keys \in KeyOrders(departments) :
              LET r == ListAllArm(departments, keys)
              IN  /\ departments' = r.store
                  /\ output' = r.out
                  /\ state' = IF IndexPanicked(r.out) THEN "Terminated" ELSE "Running"
        /\ UNCHANGED history

ArmListOne ==
    \E line \in Lines :
        /\ Match(Words[line]) = "ListOne"
        /\ ReadLine(line)
        /\ LET r == ListOneArm(departments, Words[line][2])
           IN  /\ departments' = r.store
               /\ output' = r.out
        /\ state' = "Running"
        /\ UNCHANGED history

\* the Quit arm without its break
ArmQuit_no_break ==
    \E line \in Lines :
        /\ Match(Words[line]) = "Quit"
        /\ ReadLine(line)
        /\ output' = << <<"bye", <<>>>> >>
        /\ state' = "Running"
        /\ UNCHANGED <<departments, history>>

ArmQuit ==
    \E line \in Lines :
        /\ Match(Words[line]) = "Quit"
        /\ ReadLine(line)
        /\ output' = << <<"bye", <<>>>> >>
        /\ state' = "Terminated"
        /\ UNCHANGED <<departments, history>>

\* a break in the default arm
ArmInvalid_breaks ==
    \E line \in Lines :
        /\ Match(Words[line]) = "Invalid"
        /\ ReadLine(line)
        /\ output' = << <<"usage", <<>>>> >>
        /\ state' = "Terminated"
        /\ UNCHANGED <<departments, history>>

\* the default arm starts over with a new, empty map
ArmInvalid_clears ==
    \E line \in Lines :
        /\ Match(Words[line]) = "Invalid"
        /\ ReadLine(line)
        /\ output' = << <<"usage", <<>>>> >>
        /\ state' = "Running"
        /\ departments' = EmptyMap
        /\ UNCHANGED history

\* the loop is left when the line read is empty, as at the end of the input
ArmInvalid_breaks_at_eof ==
    \E line \in Lines :
        /\ Match(Words[line]) = "Invalid"
        /\ ReadLine(line)
        /\ output' = << <<"usage", <<>>>> >>
        /\ state' = IF line = <<>> THEN "Terminated" ELSE "Running"
        /\ UNCHANGED <<departments, history>>

ArmInvalid ==
    \E line \in Lines :
        /\ Match(Words[line]) = "Invalid"
        /\ ReadLine(line)
        /\ output' = << <<"usage", <<>>>> >>
        /\ state' = "Running"
        /\ UNCHANGED <<departments, history>>

\* the read error is reported and the loop goes on to read again
ReadLineFails_retries ==
    /\ state = "Running"
    /\ state' = "Running"
    /\ panicked' = TRUE
    /\ input' = <<>>
    /\ words' = <<>>
    /\ arm' = "None"
    /\ output' = <<>>
    /\ repeated' = FALSE
    /\ UNCHANGED <<departments, history, piped, stdin, pos, fib, call>>

\* line 125: read_line returned Err, .expect() panics before anything is parsed
ReadLineFails ==
    /\ state = "Running"
    /\ state' = "Terminated"
    /\ panicked' = TRUE
    /\ input' = <<>>
    /\ words' = <<>>
    /\ arm' = "None"
    /\ output' = <<>>
    /\ repeated' = FALSE
    /\ UNCHANGED <<departments, history, piped, stdin, pos, fib, call>>

Next ==
    \/ ArmAdd
    \/ ArmListAll
    \/ ArmListOne
    \/ ArmQuit
    \/ ArmInvalid
    \/ ReadLineFails

Spec == Init /\ [][Next]_vars

----------------------------------------------------------------------------
(* The program reading a pipe: the input is fixed when the process starts  *)

ScriptLines ==
    { Join(<<TokAdd, Bob, TokTo, Sales>>) \o NL,
      Join(<<TokAdd, Amir, TokTo, Sales>>) \o NL,
      Join(<<TokList, Sales>>) \o NL,
      Join(<<TokList, TokAll>>) \o NL,
      Join(<<TokQuit, Now>>) \o NL,
      TokQuit \o NL }

Scripts == UNION {[1..n -> ScriptLines] : n \in 0..MaxScript}

InitPiped ==
    /\ departments = EmptyMap
    /\ state = "Running"
    /\ panicked = FALSE
    /\ input = <<>>
    /\ words = <<>>
    /\ arm = "None"
    /\ output = <<>>
    /\ history = <<>>
    /\ repeated = FALSE
    /\ piped = TRUE
    /\ stdin \in Scripts
    /\ pos = 0
    /\ fib = FibIdle
    /\ call = CallIdle

\* an iteration whose read succeeds
LoopStep == ArmAdd \/ ArmListAll \/ ArmListOne \/ ArmQuit \/ ArmInvalid

\* the process is never suspended: main is one thread and read_line returns
\* as soon as the pipe has a line or is closed, so an iteration that can run
\* does run unless the read fails
SpecPiped == InitPiped /\ [][Next]_vars /\ WF_vars(LoopStep)

----------------------------------------------------------------------------
(* The Add arm applied to arbitrary strings: the statements of lines       *)
(* 137-146 for any name and department, the empty string and strings with  *)
(* blanks included                                                         *)

RawNames == {<<>>, Bob, SP \o Bob}
RawDepts == {<<>>, Sales, Sales \o SP}

StoreAdd ==
    \E name \in RawNames, department \in RawDepts :
        /\ state = "Running"
        /\ Len(history) < MaxAdds
        /\ LET r == AddArm(departments, name, department)
           IN  /\ departments' = r.store
               /\ output' = r.out
        /\ history' = Append(history, <<name, department>>)
        /\ arm' = "Add"
        /\ words' = <<TokAdd, name, TokTo, department>>
        /\ UNCHANGED <<state, panicked, input, repeated, piped, stdin, pos, fib, call>>

SpecStore == Init /\ [][StoreAdd]_vars

----------------------------------------------------------------------------
(* fibonacci_sequence (src/06_flow_control.rs, lines 105-120)              *)
(*                                                                         *)
(* a, b and next are i32, the type of an unconstrained integer literal.    *)
(* An i32 addition that leaves the range panics when the build checks      *)
(* overflow (debug profile) and wraps when it does not (release profile);  *)
(* fib.checks is the build's choice.                                       *)

I32_MAX == 2147483647
I32_MIN == -I32_MAX - 1

\* x + y is outside i32; written so that no intermediate value leaves i32
AddOverflows(x, y) ==
    \/ y > 0 /\ x > I32_MAX - y
    \/ y < 0 /\ x < I32_MIN - y

\* x + y modulo 2^32, as a two's complement i32
wrapping_add(x, y) ==
    IF y > 0 /\ x > I32_MAX - y THEN (x - I32_MAX - 1) + (y - I32_MAX - 1)
    ELSE IF y < 0 /\ x < I32_MIN - y THEN (x + I32_MAX + 1) + (y + I32_MAX + 1)
    ELSE x + y

\* the roster program at rest, as Init leaves it
RosterIdle ==
    /\ departments = EmptyMap
    /\ state = "Running"
    /\ panicked = FALSE
    /\ input = <<>>
    /\ words = <<>>
    /\ arm = "None"
    /\ output = <<>>
    /\ history = <<>>
    /\ repeated = FALSE
    /\ piped = FALSE
    /\ stdin = <<>>
    /\ pos = 0

InitFib ==
    /\ departments = EmptyMap
    /\ state = "Running"
    /\ panicked = FALSE
    /\ input = <<>>
    /\ words = <<>>
    /\ arm = "None"
    /\ output = <<>>
    /\ history = <<>>
    /\ repeated = FALSE
    /\ piped = FALSE
    /\ stdin = <<>>
    /\ pos = 0
    /\ fib \in {[FibIdle EXCEPT !.pc = "entry", !.n = n, !.checks = c] :
                   n \in 0..MaxFibN, c \in BOOLEAN}
    /\ call = CallIdle

\* lines 107-112: the hint for n <= 0 (no return follows it), then a = 0, b = 1
FibEntry ==
    /\ fib.pc = "entry"
    /\ fib' = [fib EXCEPT !.pc = "loop", !.hint = (fib.n <= 0), !.a = 0, !.b = 1]
    /\ UNCHANGED <<rosterVars, call>>

\* lines 113-118: one iteration of for _ in 0..n
FibIterate ==
    /\ fib.pc = "loop"
    /\ fib.i < fib.n
    /\ LET printed == Append(fib.out, fib.a)
       IN  IF AddOverflows(fib.a, fib.b) /\ fib.checks
           THEN fib' = [fib EXCEPT !.out = printed, !.pc = "panic"]
           ELSE fib' = [fib EXCEPT !.out = printed,
                                   !.a = fib.b,
                                   !.b = wrapping_add(fib.a, fib.b),
                                   !.wrapped = fib.wrapped \/ AddOverflows(fib.a, fib.b),
                                   !.i = fib.i + 1]
    /\ UNCHANGED <<rosterVars, call>>

\* lines 113, 119: the range is exhausted, the line is ended, the call returns
FibReturn ==
    /\ fib.pc = "loop"
    /\ fib.i = fib.n
    /\ fib' = [fib EXCEPT !.pc = "done"]
    /\ UNCHANGED <<rosterVars, call>>

NextFib ==
    \/ FibEntry
    \/ FibIterate
    \/ FibReturn

SpecFib == InitFib /\ [][NextFib]_vars

----------------------------------------------------------------------------
(* calculate_median and calculate_mode (src/11_collections_vector.rs,      *)
(* lines 149-194)                                                          *)
(*                                                                         *)
(* An f64 is written [whole |-> w, half |-> h] and stands for w + h/2:     *)
(* every i32, every sum of two i32 and half of such a sum is an f64        *)
(* exactly, so the arithmetic of lines 160-162 never rounds.               *)

None == [some |-> FALSE]
Some(v) == [some |-> TRUE, value |-> v]

\* the vector of main (line 136)
list1 == <<5, 1, 2, 5, 3, 5, 2>>

NumberValues == {-3, 2, 5, I32_MAX}

NumberLists == UNION {[1..n -> NumberValues] : n \in 0..MaxLen} \cup {list1}

RECURSIVE InsertAscending(_, _)
InsertAscending(x, s) ==
    IF s = <<>> THEN <<x>>
    ELSE IF x < s[1] THEN <<x>> \o s
    ELSE <<s[1]>> \o InsertAscending(x, Tail(s))

RECURSIVE SortUnstableFrom(_, _)
SortUnstableFrom(v, acc) ==
    IF v = <<>> THEN acc ELSE SortUnstableFrom(Tail(v), InsertAscending(v[1], acc))

\* line 155: equal i32 are indistinguishable, so the result is the one
\* ascending arrangement
sort_unstable(v) == SortUnstableFrom(v, <<>>)

\* x as f64 (lines 160, 161, 166)
as_f64(x) == [whole |-> x, half |-> 0]

\* line 162: (mid1 + mid2) / 2.0 on the f64 of two i32, without leaving 32 bits
mean_f64(mid1, mid2) ==
    LET r == (mid1 % 2) + (mid2 % 2)
    IN  [whole |-> (mid1 \div 2) + (mid2 \div 2) + (r \div 2), half |-> r % 2]

\* the copy is used as it comes, never sorted
calculate_median_unsorted(numbers) ==
    IF numbers = <<>> THEN None
    ELSE LET sorted_numbers == numbers
             len == Len(sorted_numbers)
             mid_index == len \div 2
         IN  IF len % 2 = 0
             THEN Some(mean_f64(sorted_numbers[mid_index], sorted_numbers[mid_index + 1]))
             ELSE Some(as_f64(sorted_numbers[mid_index + 1]))

\* lines 149-168; sorted_numbers is indexed from 1 here, from 0 in the source
calculate_median(numbers) ==
    IF numbers = <<>> THEN None
    ELSE LET sorted_numbers == sort_unstable(numbers)
             len == Len(sorted_numbers)
             mid_index == len \div 2
         IN  IF len % 2 = 0
             THEN Some(mean_f64(sorted_numbers[mid_index], sorted_numbers[mid_index + 1]))
             ELSE Some(as_f64(sorted_numbers[mid_index + 1]))

InitMedian ==
    /\ RosterIdle
    /\ fib = FibIdle
    /\ call \in {[fn |-> "calculate_median", pc |-> "entry", numbers |-> v,
                  result |-> None] : v \in NumberLists}

\* the call and its return; numbers is borrowed immutably and is left as it was
CallMedian ==
    /\ call.fn = "calculate_median"
    /\ call.pc = "entry"
    /\ call' = [call EXCEPT !.pc = "returned", !.result = calculate_median(call.numbers)]
    /\ UNCHANGED <<rosterVars, fib>>

SpecMedian == InitMedian /\ [][CallMedian]_vars

\* lines 175-179: the occurrences of every number of the slice
count_entries(numbers) ==
    [num \in {numbers[i] : i \in 1..Len(numbers)} |->
        Cardinality({i \in 1..Len(numbers) : numbers[i] = num})]

\* the first entry with the smallest count is taken
min_by_key(order, counts) ==
    LET least == CHOOSE c \in {counts[k] : k \in DOMAIN counts} :
                     \A k \in DOMAIN counts : counts[k] >= c
        at == CHOOSE i \in 1..Len(order) :
                  /\ counts[order[i]] = least
                  /\ \A j \in 1..(i - 1) : counts[order[j]] # least
    IN  order[at]

\* Iterator::max_by_key over the entries in the order into_iter() yields them:
\* of several entries with the greatest count the last one is returned
max_by_key(order, counts) ==
    LET greatest == CHOOSE c \in {counts[k] : k \in DOMAIN counts} :
                        \A k \in DOMAIN counts : counts[k] <= c
        at == CHOOSE i \in 1..Len(order) :
                  /\ counts[order[i]] = greatest
                  /\ \A j \in (i + 1)..Len(order) : counts[order[j]] # greatest
    IN  order[at]

\* lines 170-194; order is the iteration order of the HashMap counts
calculate_mode(numbers, order) ==
    IF numbers = <<>> THEN None
    ELSE Some(max_by_key(order, count_entries(numbers)))

InitMode ==
    /\ RosterIdle
    /\ fib = FibIdle
    /\ call \in {[fn |-> "calculate_mode", pc |-> "entry", numbers |-> v,
                  result |-> None] : v \in NumberLists}

CallMode ==
    /\ call.fn = "calculate_mode"
    /\ call.pc = "entry"
    /\ \E order \in KeyOrders(count_entries(call.numbers)) :
           call' = [call EXCEPT !.pc = "returned",
                                !.result = calculate_mode(call.numbers, order)]
    /\ UNCHANGED <<rosterVars, fib>>

SpecMode == InitMode /\ [][CallMode]_vars

----------------------------------------------------------------------------
(* parse_positive_integer (src/16_error_handling_result.rs, lines 127-147) *)

Ok(v) == [ok |-> TRUE, value |-> v]
Err(e) == [ok |-> FALSE, message |-> e]

\* '0', '4', '7', '-', '+', ' ', 'x'
ParseChars == {48, 52, 55, 45, 43, 32, 120}

\* the argument of main (line 93) and literals at and beyond the ends of i32
\* "100", "2147483647", "2147483648", "-2147483648", "-2147483649",
\* "0000000000004", "-0000000000", "99999999999", "+2147483647"
LongLiterals ==
    { <<49, 48, 48>>,
      <<50, 49, 52, 55, 52, 56, 51, 54, 52, 55>>,
      <<50, 49, 52, 55, 52, 56, 51, 54, 52, 56>>,
      <<45, 50, 49, 52, 55, 52, 56, 51, 54, 52, 56>>,
      <<45, 50, 49, 52, 55, 52, 56, 51, 54, 52, 57>>,
      <<48, 48, 48, 48, 48, 48, 48, 48, 48, 48, 48, 48, 52>>,
      <<45, 48, 48, 48, 48, 48, 48, 48, 48, 48, 48>>,
      <<57, 57, 57, 57, 57, 57, 57, 57, 57, 57, 57>>,
      <<43, 50, 49, 52, 55, 52, 56, 51, 54, 52, 55>> }

ParseInputs == UNION {[1..n -> ParseChars] : n \in 0..MaxChars} \cup LongLiterals

\* the digits of <i32 as FromStr>::from_str, most significant first: acc is
\* the value so far, kept negative for a '-' literal; checked_mul(10) and
\* checked_add / checked_sub fail when the result leaves i32
RECURSIVE ParseDigits(_, _, _)
ParseDigits(digits, acc, is_positive) ==
    IF digits = <<>> THEN Ok(acc)
    ELSE IF digits[1] \notin 48..57 THEN Err("InvalidDigit")
    ELSE LET x == digits[1] - 48
         IN  IF is_positive
             THEN IF acc > I32_MAX \div 10 THEN Err("PosOverflow")
                  ELSE IF acc * 10 > I32_MAX - x THEN Err("PosOverflow")
                  ELSE ParseDigits(Tail(digits), acc * 10 + x, is_positive)
             ELSE IF acc < -(I32_MAX \div 10) THEN Err("NegOverflow")
                  ELSE IF acc * 10 < I32_MIN + x THEN Err("NegOverflow")
                  ELSE ParseDigits(Tail(digits), acc * 10 - x, is_positive)

\* s.parse::<i32>() (line 129): an optional '+' or '-', then one or more
\* decimal digits and nothing else
parse_i32(s) ==
    IF s = <<>> THEN Err("Empty")
    ELSE IF s[1] \in {43, 45} /\ Len(s) = 1 THEN Err("InvalidDigit")
    ELSE IF s[1] = 43 THEN ParseDigits(Tail(s), 0, TRUE)
    ELSE IF s[1] = 45 THEN ParseDigits(Tail(s), 0, FALSE)
    ELSE ParseDigits(s, 0, TRUE)

\* the test of line 133 written num >= 0
parse_positive_integer_accepts_zero(s) ==
    LET parsed == parse_i32(s)
    IN  IF parsed.ok
        THEN IF parsed.value >= 0 THEN Ok(parsed.value)
             ELSE Err(<<"notPositive", parsed.value>>)
        ELSE Err(<<"notInteger", s>>)

\* lines 127-147; each message is written <<kind, the value formatted into it>>
parse_positive_integer(s) ==
    LET parsed == parse_i32(s)
    IN  IF parsed.ok
        THEN IF parsed.value > 0 THEN Ok(parsed.value)
             ELSE Err(<<"notPositive", parsed.value>>)
        ELSE Err(<<"notInteger", s>>)

InitParse ==
    /\ RosterIdle
    /\ fib = FibIdle
    /\ call \in {[fn |-> "parse_positive_integer", pc |-> "entry", s |-> s,
                  result |-> Err(<<>>)] : s \in ParseInputs}

CallParse ==
    /\ call.fn = "parse_positive_integer"
    /\ call.pc = "entry"
    /\ call' = [call EXCEPT !.pc = "returned", !.result = parse_positive_integer(call.s)]
    /\ UNCHANGED <<rosterVars, fib>>

SpecParse == InitParse /\ [][CallParse]_vars

----------------------------------------------------------------------------
(* print_christmas_lyrics (src/06_flow_control.rs, lines 123-162)          *)

\* lines 125-138
gifts ==
    << "A partridge in a pear tree", "Two turtle doves", "Three French hens",
       "Four calling birds", "Five golden rings", "Six geese a-laying",
       "Seven swans a-swimming", "Eight maids a-milking", "Nine ladies dancing",
       "Ten lords a-leaping", "Eleven pipers piping", "Twelve drummers drumming" >>

\* lines 140-143
days ==
    << "first", "second", "third", "fourth", "fifth", "sixth",
       "seventh", "eighth", "ninth", "tenth", "eleventh", "twelfth" >>

\* the end of the range 0..12 of line 146
NumDays == 12

\* array[index] with the index counted from 0: out of bounds it panics
InBounds(array, index) == index \in 0..(Len(array) - 1)
At(array, index) == array[index + 1]

\* "And " before the last gift of every verse, the first verse too
NeedsAnd_every_verse(day_index, gift_index) == day_index >= 0 /\ gift_index = 0

\* the condition of line 155
NeedsAnd(day_index, gift_index) == day_index > 0 /\ gift_index = 0

InitLyrics ==
    /\ RosterIdle
    /\ fib = FibIdle
    /\ call = [fn |-> "print_christmas_lyrics", pc |-> "entry", day_index |-> 0,
               gift_index |-> 0, out |-> <<>>]

\* line 144: the title; the outer range starts at 0
LyricsTitle ==
    /\ call.fn = "print_christmas_lyrics"
    /\ call.pc = "entry"
    /\ call' = [call EXCEPT !.pc = "verse", !.out = <<(<<"title">>)>>, !.day_index = 0]
    /\ UNCHANGED <<rosterVars, fib>>

\* lines 146-152: the head of a verse; the inner range starts at day_index
LyricsVerse ==
    /\ call.fn = "print_christmas_lyrics"
    /\ call.pc = "verse"
    /\ call.day_index < NumDays
    /\ IF InBounds(days, call.day_index)
       THEN call' = [call EXCEPT
                        !.out = @ \o << <<"verse", call.day_index + 1>>,
                                        <<"day", At(days, call.day_index)>>,
                                        <<"sent">> >>,
                        !.gift_index = call.day_index,
                        !.pc = "and"]
       ELSE call' = [call EXCEPT !.out = Append(@, <<"verse", call.day_index + 1>>),
                                 !.pc = "panic"]
    /\ UNCHANGED <<rosterVars, fib>>

\* lines 155-157
LyricsAnd ==
    /\ call.fn = "print_christmas_lyrics"
    /\ call.pc = "and"
    /\ call' = [call EXCEPT
                   !.out = IF NeedsAnd(call.day_index, call.gift_index)
                           THEN Append(@, <<"and">>) ELSE @,
                   !.pc = "gift"]
    /\ UNCHANGED <<rosterVars, fib>>

\* line 159, then the next element of (0..=day_index).rev() or, after the
\* last one, the next day
LyricsGift ==
    /\ call.fn = "print_christmas_lyrics"
    /\ call.pc = "gift"
    /\ IF ~InBounds(gifts, call.gift_index)
       THEN call' = [call EXCEPT !.pc = "panic"]
       ELSE IF call.gift_index > 0
       THEN call' = [call EXCEPT !.out = Append(@, <<"gift", At(gifts, call.gift_index)>>),
                                 !.gift_index = @ - 1,
                                 !.pc = "and"]
       ELSE call' = [call EXCEPT !.out = Append(@, <<"gift", At(gifts, call.gift_index)>>),
                                 !.day_index = @ + 1,
                                 !.pc = "verse"]
    /\ UNCHANGED <<rosterVars, fib>>

\* line 146: the outer range is exhausted, the function returns
LyricsReturn ==
    /\ call.fn = "print_christmas_lyrics"
    /\ call.pc = "verse"
    /\ call.day_index = NumDays
    /\ call' = [call EXCEPT !.pc = "done"]
    /\ UNCHANGED <<rosterVars, fib>>

NextLyrics ==
    \/ LyricsTitle
    \/ LyricsVerse
    \/ LyricsAnd
    \/ LyricsGift
    \/ LyricsReturn

\* the function runs on a thread that is scheduled until it returns
SpecLyrics == InitLyrics /\ [][NextLyrics]_vars /\ WF_vars(NextLyrics)

----------------------------------------------------------------------------
(* filter (src/17_generics.rs, lines 159-172)                              *)

\* the vector numbers of main (line 147); T is i32 in every call modelled
numbers == <<1, 2, 3, 4, 5, 6, 7, 8, 9, 10>>

FilterNumbers == {1, 2, 3, 4}

\* the closure |&x| x % 2 == 0 of main (line 150) and, for any set of numbers,
\* the closure that accepts the members of that set
Predicates ==
    {[kind |-> "is_even", of |-> {}]}
        \cup {[kind |-> "member", of |-> S] : S \in SUBSET FilterNumbers}

\* predicate(item)
Holds(predicate, item) ==
    CASE predicate.kind = "is_even" -> item % 2 = 0
      [] predicate.kind = "member" -> item \in predicate.of

FilterCalls ==
    (UNION {[1..n -> FilterNumbers] : n \in 0..MaxSlice} \cup {numbers}) \X Predicates

\* an item equal to one already in result is not pushed again
RECURSIVE FilterFrom_dedup(_, _, _)
FilterFrom_dedup(slice, predicate, result) ==
    IF slice = <<>> THEN result
    ELSE FilterFrom_dedup(Tail(slice), predicate,
                    IF Holds(predicate, slice[1])
                       /\ \A i \in 1..Len(result) : result[i] # slice[1]
                    THEN Append(result, slice[1]) ELSE result)

\* lines 165-170: the loop over the rest of the slice, result so far
RECURSIVE FilterFrom(_, _, _)
FilterFrom(slice, predicate, result) ==
    IF slice = <<>> THEN result
    ELSE FilterFrom(Tail(slice), predicate,
                    IF Holds(predicate, slice[1])
                    THEN Append(result, slice[1]) ELSE result)

\* the loop that skips the items already pushed
filter_dedup(slice, predicate) == FilterFrom_dedup(slice, predicate, <<>>)

\* lines 159-172
filter(slice, predicate) == FilterFrom(slice, predicate, <<>>)

InitFilter ==
    /\ RosterIdle
    /\ fib = FibIdle
    /\ call \in {[fn |-> "filter", pc |-> "entry", slice |-> c[1], predicate |-> c[2],
                  result |-> <<>>] : c \in FilterCalls}

\* the call and its return; slice is borrowed immutably and is left as it was
CallFilter ==
    /\ call.fn = "filter"
    /\ call.pc = "entry"
    /\ call' = [call EXCEPT !.pc = "returned",
                            !.result = filter(call.slice, call.predicate)]
    /\ UNCHANGED <<rosterVars, fib>>

SpecFilter == InitFilter /\ [][CallFilter]_vars

----------------------------------------------------------------------------
(* Vocabulary of the properties *)

Range(s) == {s[i] : i \in 1..Len(s)}

Count(s, x) == Cardinality({i \in 1..Len(s) : s[i] = x})

\* same elements with the same multiplicities
SamePermutation(s, t) ==
    /\ Len(s) = Len(t)
    /\ \A x \in Range(s) \cup Range(t) : Count(s, x) = Count(t, x)

IsAscending(s) == \A i \in 1..(Len(s) - 1) : ~StrLess(s[i + 1], s[i])

IsStrictlyAscending(s) == \A i \in 1..(Len(s) - 1) : StrLess(s[i], s[i + 1])

\* the second field of every printed line of the given kind, in print order
Printed(out, kind) ==
    LET sel == SelectSeq(out, LAMBDA l : l[1] = kind)
    IN  [i \in 1..Len(sel) |-> sel[i][2]]

\* the employee lines that directly follow position i of out
RECURSIVE EmployeesFrom(_, _)
EmployeesFrom(out, i) ==
    IF i > Len(out) \/ out[i][1] # "employee" THEN <<>>
    ELSE <<out[i][2]>> \o EmployeesFrom(out, i + 1)

\* the employees printed under the header of department d
SectionOf(out, d) ==
    LET i == CHOOSE i \in 1..Len(out) : out[i] = <<"department", d>>
    IN  EmployeesFrom(out, i + 1)

\* the employees of the Add commands executed so far on department d, in order
AddedTo(d) ==
    LET sel == SelectSeq(history, LAMBDA p : p[2] = d)
    IN  [i \in 1..Len(sel) |-> sel[i][1]]

Targeted == {history[i][2] : i \in 1..Len(history)}

Stored(d) == IF d \in DOMAIN departments THEN departments[d] ELSE <<>>

----------------------------------------------------------------------------
(* C1: List All prints the departments in ascending order of name, each    *)
(* exactly once, and under each department exactly its employees in        *)
(* ascending order, whatever the order of the Adds was.                    *)
C1_ListAllSorted ==
    arm = "ListAll" =>
        LET ds == Printed(output, "department")
        IN  /\ output[1] = <<"all", <<>>>>
            /\ IsStrictlyAscending(ds)
            /\ Range(ds) = DOMAIN departments
            /\ \A d \in DOMAIN departments :
                  /\ IsAscending(SectionOf(output, d))
                  /\ SamePermutation(SectionOf(output, d), AddedTo(d))
            /\ Len(output) = 1 + Len(ds) + Len(history)

\* List All ran on two or more departments created out of name order, one of
\* them holding employees added out of order
C1_Witness ==
    /\ arm = "ListAll"
    /\ \E i, j \in 1..Len(history) : i < j /\ StrLess(history[j][2], history[i][2])
    /\ \E d \in DOMAIN departments : ~IsAscending(departments[d])

(* C2: List D on an existing department prints, in ascending order, a      *)
(* permutation of the employees added to D so far and nothing else.        *)
C2_ListOneSortedPermutation ==
    (arm = "ListOne" /\ words[2] \in DOMAIN departments) =>
        LET d  == words[2]
            es == Printed(output, "employee")
        IN  /\ output = << <<"list", d>> >> \o EmployeeLines(es)
            /\ IsAscending(es)
            /\ SamePermutation(es, AddedTo(d))
            /\ \A e \in Range(es) : \E i \in 1..Len(history) : history[i] = <<e, d>>

\* List D ran on a department whose employees were added out of order while
\* another department holds an employee that D does not
C2_Witness ==
    /\ arm = "ListOne"
    /\ words[2] \in DOMAIN departments
    /\ ~IsAscending(departments[words[2]])
    /\ \E d \in DOMAIN departments :
          d # words[2] /\ \E e \in Range(departments[d]) : e \notin Range(departments[words[2]])

(* C3: no deduplication: the stored sequence of D is as long as the number *)
(* of Adds on D, and every employee is stored as often as it was added.    *)
C3_NoDeduplication ==
    \A d \in DOMAIN departments \cup Targeted :
        /\ Len(Stored(d)) = Cardinality({i \in 1..Len(history) : history[i][2] = d})
        /\ \A e \in Range(AddedTo(d)) : Count(Stored(d), e) = Count(history, <<e, d>>)

\* the same employee was added twice to the same department
C3_Witness ==
    \E d \in DOMAIN departments : \E i, j \in 1..Len(departments[d]) :
        i # j /\ departments[d][i] = departments[d][j]

(* C4: List D on a department that no Add ever targeted reports            *)
(* DepartmentNotFound, prints no employee, leaves the store unchanged and  *)
(* the loop Running.                                                       *)
C4_ListAbsentNotFound ==
    [][ (arm' = "ListOne" /\ words'[2] \notin Targeted) =>
            /\ output' = << <<"list", words'[2]>>, <<"notFound", words'[2]>> >>
            /\ departments' = departments
            /\ state' = "Running"
            /\ ~panicked' ]_vars

\* List D ran for a D never added to, on a store that is not empty
C4_Witness ==
    /\ arm = "ListOne"
    /\ words[2] \notin Targeted
    /\ departments # EmptyMap
    /\ Printed(output, "notFound") = <<words[2]>>

(* C5: Add E to D creates D exactly when absent and appends E at the end,  *)
(* so that D's stored sequence is the employees in the order added.        *)
C5_AddAppends ==
    /\ [](\A d \in DOMAIN departments \cup Targeted : Stored(d) = AddedTo(d))
    /\ [][ arm' = "Add" =>
             LET e == words'[2]
                 d == words'[4]
             IN  /\ DOMAIN departments' = DOMAIN departments \cup {d}
                 /\ departments'[d] = Append(Stored(d), e) ]_vars

\* an Add appended to a department that already held a different employee
C5_Witness ==
    /\ arm = "Add"
    /\ Len(departments[words[4]]) >= 2
    /\ departments[words[4]][1] # words[2]

(* C6: between two commands every department present is non-empty; the     *)
(* store starts empty and a department appears only through an Add, which  *)
(* leaves its employee in it.                                              *)
C6_DepartmentsNonEmpty ==
    /\ [](\A d \in DOMAIN departments : departments[d] # <<>>)
    /\ [](history = <<>> => departments = EmptyMap)
    /\ [][ DOMAIN departments' # DOMAIN departments =>
             /\ arm' = "Add"
             /\ DOMAIN departments' = DOMAIN departments \cup {words'[4]}
             /\ words'[2] \in Range(departments'[words'[4]]) ]_vars

\* an Add has just created a second department
C6_Witness ==
    /\ arm = "Add"
    /\ Len(departments[words[4]]) = 1
    /\ Cardinality(DOMAIN departments) >= 2

(* C7: List D and List All leave the mapping exactly unchanged, the        *)
(* insertion order of every stored sequence included.                      *)
C7_ListsArePureReads ==
    [][ arm' \in {"ListOne", "ListAll"} => departments' = departments ]_vars

\* a List command ran on a store holding a sequence that sorting would reorder
C7_Witness ==
    /\ arm \in {"ListOne", "ListAll"}
    /\ \E d \in DOMAIN departments : sort(departments[d]) # departments[d]
    /\ Len(output) >= 3

(* C8: a List command issued again right after itself prints the same      *)
(* lines.                                                                  *)
C8_ListIdempotent ==
    [][ (repeated' /\ arm' \in {"ListOne", "ListAll"}) => output' = output ]_vars

\* List All was issued twice in a row on a store with several departments
C8_Witness ==
    /\ repeated
    /\ arm = "ListAll"
    /\ Cardinality(DOMAIN departments) >= 2

(* C9: the tokens List All always run the List-All arm, also when a        *)
(* department named All exists; any other two tokens starting with List    *)
(* run the List-one arm on the second token.                               *)
C9_ListAllDispatch ==
    (arm # "None" /\ Len(words) = 2 /\ words[1] = TokList) =>
        IF words[2] = TokAll
        THEN arm = "ListAll" /\ output[1] = <<"all", <<>>>>
        ELSE arm = "ListOne" /\ output[1] = <<"list", words[2]>>

\* List All ran while a department named All exists
C9_Witness ==
    /\ arm = "ListAll"
    /\ TokAll \in DOMAIN departments
    /\ <<"department", TokAll>> \in Range(output)

(* C10: the loop is Running or Terminated, starts Running, leaves Running  *)
(* normally only through Quit, and stays Running after Add, List and       *)
(* invalid lines.                                                          *)
C10_TwoStates ==
    /\ [](state \in {"Running", "Terminated"})
    /\ []((arm = "None" /\ ~panicked) => state = "Running")
    /\ [][ /\ state = "Running"
           /\ (state' = "Terminated" /\ ~panicked') => arm' = "Quit"
           /\ arm' \in {"Add", "ListOne", "ListAll", "Invalid"} => state' = "Running" ]_vars

\* Quit ended a run that had executed other commands
C10_Witness ==
    /\ state = "Terminated"
    /\ ~panicked
    /\ arm = "Quit"
    /\ history # <<>>

(* C11: a line whose tokens are exactly Quit prints the farewell and        *)
(* terminates the loop; nothing is read, dispatched or stored after the    *)
(* loop has terminated.                                                    *)
C11_QuitTerminates ==
    /\ [][ words' = <<TokQuit>> =>
             /\ arm' = "Quit"
             /\ output' = << <<"bye", <<>>>> >>
             /\ state' = "Terminated"
             /\ ~panicked'
             /\ departments' = departments ]_vars
    /\ [][ state # "Terminated" ]_vars

\* Quit ended the run before any Add
C11_Witness ==
    /\ state = "Terminated"
    /\ arm = "Quit"
    /\ words = <<TokQuit>>
    /\ departments = EmptyMap
    /\ history = <<>>

(* C12: an unrecognized line prints the usage hint, leaves the mapping     *)
(* unchanged and the loop Running; the mapping changes in Add steps only.  *)
C12_InvalidHandledLocally ==
    [][ /\ arm' = "Invalid" =>
             /\ output' = << <<"usage", <<>>>> >>
             /\ departments' = departments
             /\ state' = "Running"
             /\ ~panicked'
        /\ departments' # departments => arm' = "Add" ]_vars

\* an unrecognized line was handled while the store held employees
C12_Witness ==
    /\ arm = "Invalid"
    /\ words # <<>>
    /\ departments # EmptyMap
    /\ state = "Running"

(* C13: keywords are matched exactly and case-sensitively: a line that     *)
(* differs from a command shape in letter case only is invalid, except     *)
(* that List followed by a miscased All lists the department of that name. *)
C13_KeywordsCaseSensitive ==
    arm # "None" =>
        /\ arm = "Add" => (Len(words) = 4 /\ words[1] = TokAdd /\ words[3] = TokTo)
        /\ arm = "ListAll" => words = <<TokList, TokAll>>
        /\ arm = "Quit" => words = <<TokQuit>>
        /\ (/\ Len(words) = 4
            /\ eq_ignore_ascii_case(words[1], TokAdd)
            /\ eq_ignore_ascii_case(words[3], TokTo)
            /\ (words[1] # TokAdd \/ words[3] # TokTo)) => arm = "Invalid"
        /\ (/\ Len(words) = 2
            /\ eq_ignore_ascii_case(words[1], TokList)
            /\ words[1] # TokList) => arm = "Invalid"
        /\ (/\ Len(words) = 2
            /\ words[1] = TokList
            /\ eq_ignore_ascii_case(words[2], TokAll)
            /\ words[2] # TokAll) => (arm = "ListOne" /\ output[1] = <<"list", words[2]>>)
        /\ (/\ Len(words) = 1
            /\ eq_ignore_ascii_case(words[1], TokQuit)
            /\ words[1] # TokQuit) => arm = "Invalid"

\* "Add Bob TO Sales" was rejected after proper Adds had been accepted
C13_Witness ==
    /\ arm = "Invalid"
    /\ Len(words) = 4
    /\ words[1] = TokAdd
    /\ words[3] = UpperTo
    /\ history # <<>>

(* C14: every line runs exactly one of the five arms; a line of 0, 3, 5 or *)
(* more tokens, one token other than Quit, two tokens not starting with    *)
(* List, or four tokens without Add first and to third, is invalid.        *)
C14_ParsingTotal ==
    arm # "None" =>
        /\ arm \in {"Add", "ListOne", "ListAll", "Quit", "Invalid"}
        /\ Len(words) \notin {1, 2, 4} => arm = "Invalid"
        /\ (Len(words) = 1 /\ words[1] # TokQuit) => arm = "Invalid"
        /\ (Len(words) = 2 /\ words[1] # TokList) => arm = "Invalid"
        /\ (Len(words) = 4 /\ (words[1] # TokAdd \/ words[3] # TokTo)) => arm = "Invalid"
        /\ arm = "Invalid" => output = << <<"usage", <<>>>> >>
        /\ arm = "Quit" => output = << <<"bye", <<>>>> >>
        /\ arm = "Add" => output[1][1] = "adding"
        /\ arm = "ListOne" => output[1][1] = "list"
        /\ arm = "ListAll" => output[1][1] = "all"

\* the five-token line "Add Sally Smith to Engineering" was rejected
C14_Witness ==
    /\ arm = "Invalid"
    /\ Len(words) = 5
    /\ words[1] = TokAdd
    /\ output = << <<"usage", <<>>>> >>

(* C15: a failed read terminates the process at once: the iteration        *)
(* dispatches nothing, nothing is read again and the store is not touched. *)
C15_ReadFailureFatal ==
    /\ [](panicked => state = "Terminated")
    /\ [][ panicked' =>
             /\ arm' = "None"
             /\ output' = <<>>
             /\ departments' = departments
             /\ history' = history ]_vars
    /\ [][ ~panicked ]_vars

\* the read failed after employees had been stored
C15_Witness ==
    /\ panicked
    /\ state = "Terminated"
    /\ departments # EmptyMap

\* position in the pipe of the first line whose tokens are exactly Quit, 0 if none
FirstQuit(script) ==
    LET quits == {i \in 1..Len(script) : Words[script[i]] = <<TokQuit>>}
    IN  IF quits = {} THEN 0 ELSE CHOOSE i \in quits : \A j \in quits : i <= j

\* the <<name, department>> pairs of the Add lines of a script, in order
AddsOf(script) ==
    LET adds == SelectSeq(script, LAMBDA l : Match(Words[l]) = "Add")
    IN  [i \in 1..Len(adds) |-> <<Words[adds[i]][2], Words[adds[i]][4]>>]

(* C16: the loop reads and dispatches the lines of its input one at a      *)
(* time and in order; when a Quit line comes and no read fails before it,  *)
(* the loop eventually terminates at that line, every earlier line having  *)
(* been dispatched once.                                                   *)
C16_LoopUntilQuit ==
    /\ [][ (~panicked' /\ pos < Len(stdin)) =>
             /\ pos' = pos + 1
             /\ input' = stdin[pos + 1]
             /\ words' = Tokenize(stdin[pos + 1])
             /\ arm' # "None" ]_vars
    /\ <>( \/ panicked
           \/ FirstQuit(stdin) = 0
           \/ /\ state = "Terminated"
              /\ arm = "Quit"
              /\ pos = FirstQuit(stdin)
              /\ history = AddsOf(SubSeq(stdin, 1, pos - 1)) )

\* Quit was the third line of the pipe and ended the run after an Add
C16_Witness ==
    /\ piped
    /\ state = "Terminated"
    /\ arm = "Quit"
    /\ pos = 3
    /\ history # <<>>

(* C17: add never fails: for every name and department, the empty string  *)
(* included, it reports success and stores the name exactly as given at    *)
(* the end of the department exactly as given.                             *)
C17_AddAlwaysSucceeds ==
    [][ arm' = "Add" =>
          LET e == words'[2]
              d == words'[4]
          IN  /\ d \in DOMAIN departments'
              /\ departments'[d] = Append(Stored(d), e)
              /\ output' = << <<"adding", e, d>>, <<"added", <<>>>> >>
              /\ state' = "Running"
              /\ ~panicked' ]_vars

\* the empty name was added to the department with the empty name
C17_Witness ==
    /\ arm = "Add"
    /\ words[2] = <<>>
    /\ words[4] = <<>>
    /\ <<>> \in DOMAIN departments
    /\ departments[<<>>][Len(departments[<<>>])] = <<>>

(* C18: department names are case-sensitive, unique keys: every distinct   *)
(* spelling added to is one department holding the Adds on that spelling   *)
(* only, and List All prints each department name exactly once.            *)
C18_DepartmentKeys ==
    /\ DOMAIN departments = Targeted
    /\ \A d \in DOMAIN departments :
          Len(departments[d]) = Cardinality({i \in 1..Len(history) : history[i][2] = d})
    /\ \A d1, d2 \in DOMAIN departments :
          (d1 # d2 /\ eq_ignore_ascii_case(d1, d2)) =>
              Len(departments[d1]) + Len(departments[d2]) =
                  Cardinality({i \in 1..Len(history) : history[i][2] \in {d1, d2}})
    /\ arm = "ListAll" =>
          \A d \in Targeted : Count(Printed(output, "department"), d) = 1

\* List All ran on a store holding Sales, added to twice, and sales
C18_Witness ==
    /\ arm = "ListAll"
    /\ {Sales, LowerSales} \subseteq DOMAIN departments
    /\ Len(departments[Sales]) = 2
    /\ Len(departments[LowerSales]) = 1

(* C19: Add E to D leaves the stored sequence of every other department    *)
(* unchanged, and what List D' prints depends on the entry of D' alone.    *)
C19_DepartmentsIsolated ==
    /\ [][ arm' = "Add" =>
             \A d \in DOMAIN departments \ {words'[4]} :
                 /\ d \in DOMAIN departments'
                 /\ departments'[d] = departments[d] ]_vars
    /\ []((arm = "ListOne" /\ words[2] \in DOMAIN departments) =>
             LET d == words[2]
             IN  output = ListOneArm([k \in {d} |-> departments[d]], d).out)

\* Add Sally to Engineering, Add Amir to Sales, List Engineering printed Sally
C19_Witness ==
    /\ arm = "ListOne"
    /\ words[2] = Engineering
    /\ history = << <<Sally, Engineering>>, <<Amir, Sales>> >>
    /\ Printed(output, "employee") = <<Sally>>

\* s is 0, 1 and then each number the sum of the two before it
IsFibonacciPrefix(s) ==
    /\ Len(s) >= 1 => s[1] = 0
    /\ Len(s) >= 2 => s[2] = 1
    /\ \A k \in 3..Len(s) : s[k] - s[k - 1] = s[k - 2]

(* C20: fibonacci_sequence(n) prints exactly the first n Fibonacci numbers *)
(* for every n, every addition of the loop staying within i32.             *)
C20_FibonacciFirstN ==
    fib.pc \in {"loop", "done", "panic"} =>
        /\ fib.pc # "panic"
        /\ ~fib.wrapped
        /\ IsFibonacciPrefix(fib.out)
        /\ Len(fib.out) = fib.i
        /\ fib.pc = "done" => Len(fib.out) = fib.n

----------------------------------------------------------------------------
\* the element at 0-based index k of the ascending arrangement of s: fewer
\* than k + 1 elements are below it and more than k are not above it
OrderStatistic(s, k) ==
    CHOOSE x \in Range(s) :
        /\ Cardinality({i \in 1..Len(s) : s[i] < x}) <= k
        /\ Cardinality({i \in 1..Len(s) : s[i] <= x}) > k

\* the f64 m is exactly (x + y) / 2
IsMeanOf(m, x, y) == (m.whole - x) + (m.whole - y) + m.half = 0

(* C21: calculate_median returns None exactly for the empty slice; for an  *)
(* odd length n the element at index n/2 of the ascending arrangement, for *)
(* an even length the arithmetic mean of the elements at n/2 - 1 and n/2;  *)
(* the caller's slice is left in its order.                                *)
C21_MedianOfSortedCopy ==
    /\ [](call.pc = "returned" =>
            LET s == call.numbers
                n == Len(s)
            IN  /\ (call.result = None) <=> (s = <<>>)
                /\ (n > 0 /\ n % 2 = 1) =>
                      /\ call.result.some
                      /\ call.result.value.half = 0
                      /\ call.result.value.whole = OrderStatistic(s, n \div 2)
                /\ (n > 0 /\ n % 2 = 0) =>
                      /\ call.result.some
                      /\ IsMeanOf(call.result.value,
                                  OrderStatistic(s, (n \div 2) - 1),
                                  OrderStatistic(s, n \div 2)))
    /\ [][call'.numbers = call.numbers]_vars

\* an even-length slice out of order whose median, 3.5, is no integer
C21_Witness ==
    /\ call.pc = "returned"
    /\ call.numbers = <<5, I32_MAX, -3, 2>>
    /\ call.result = Some([whole |-> 3, half |-> 1])

(* C22: calculate_mode returns None exactly for the empty slice; otherwise *)
(* a value that occurs in the slice and occurs at least as often as every  *)
(* other value.                                                            *)
C22_ModeIsMostFrequent ==
    call.pc = "returned" =>
        LET s == call.numbers
        IN  /\ (call.result = None) <=> (s = <<>>)
            /\ s # <<>> =>
                  /\ call.result.some
                  /\ call.result.value \in Range(s)
                  /\ \A x \in Range(s) : Count(s, x) <= Count(s, call.result.value)

\* the mode of the vector of main is 5
C22_Witness ==
    /\ call.pc = "returned"
    /\ call.numbers = list1
    /\ call.result = Some(5)

----------------------------------------------------------------------------
\* s without its sign
Unsigned(s) == IF s # <<>> /\ s[1] \in {43, 45} THEN Tail(s) ELSE s

IsNegativeLiteral(s) == s # <<>> /\ s[1] = 45

\* an optional sign followed by one or more decimal digits
IsDecimalLiteral(s) ==
    /\ Unsigned(s) # <<>>
    /\ \A i \in 1..Len(Unsigned(s)) : Unsigned(s)[i] \in 48..57

\* d without its leading zeros
Significant(d) ==
    LET nonzero == {i \in 1..Len(d) : d[i] # 48}
    IN  IF nonzero = {} THEN <<>>
        ELSE SubSeq(d, CHOOSE i \in nonzero : \A j \in nonzero : i <= j, Len(d))

\* digit strings without leading zeros, compared as numbers
DigitsAtMost(a, b) ==
    \/ Len(a) < Len(b)
    \/ /\ Len(a) = Len(b)
       /\ \/ a = b
          \/ \E i \in 1..Len(a) :
                /\ a[i] < b[i]
                /\ \A j \in 1..(i - 1) : a[j] = b[j]

\* "2147483647" and "2147483648"
MaxDigits == <<50, 49, 52, 55, 52, 56, 51, 54, 52, 55>>
MinDigits == <<50, 49, 52, 55, 52, 56, 51, 54, 52, 56>>

\* the literal denotes a number of i32
DenotesI32(s) ==
    /\ IsDecimalLiteral(s)
    /\ DigitsAtMost(Significant(Unsigned(s)),
                    IF IsNegativeLiteral(s) THEN MinDigits ELSE MaxDigits)

\* the number the digits d denote, negated when negative is TRUE
RECURSIVE Denoted(_, _)
Denoted(d, negative) ==
    IF d = <<>> THEN 0
    ELSE LET unit == d[Len(d)] - 48
         IN  Denoted(SubSeq(d, 1, Len(d) - 1), negative) * 10
                 + (IF negative THEN -unit ELSE unit)

(* C23: parse_positive_integer(s) is Ok(n) exactly when s is a decimal     *)
(* literal of an i32 n and n > 0; it is Err with a message when s is no    *)
(* such literal (a number outside i32 included) or n <= 0; Ok never holds  *)
(* a number that is zero or negative.                                      *)
C23_OkIffPositiveI32 ==
    call.pc = "returned" =>
        LET s == call.s
            n == Denoted(Unsigned(s), IsNegativeLiteral(s))
        IN  /\ call.result.ok <=> (DenotesI32(s) /\ n > 0)
            /\ call.result.ok => (call.result.value = n /\ call.result.value > 0)
            /\ ~DenotesI32(s) => call.result = Err(<<"notInteger", s>>)
            /\ (DenotesI32(s) /\ n <= 0) => call.result = Err(<<"notPositive", n>>)

\* a literal one beyond i32::MAX is refused as no integer
C23_Witness ==
    /\ call.pc = "returned"
    /\ call.s = MinDigits
    /\ call.result = Err(<<"notInteger", MinDigits>>)

----------------------------------------------------------------------------
\* the gifts of verse k from gift j down to gift 1, "And " before gift 1 in
\* every verse but the first
RECURSIVE GiftsDownFrom(_, _)
GiftsDownFrom(k, j) ==
    IF j = 0 THEN <<>>
    ELSE (IF j = 1 /\ k > 1 THEN <<(<<"and">>)>> ELSE <<>>)
             \o <<(<<"gift", gifts[j]>>)>> \o GiftsDownFrom(k, j - 1)

\* verses 1..k
RECURSIVE VersesUpTo(_)
VersesUpTo(k) ==
    IF k = 0 THEN <<>>
    ELSE VersesUpTo(k - 1)
             \o << <<"verse", k>>, <<"day", days[k]>>, <<"sent">> >>
             \o GiftsDownFrom(k, k)

TwelveVerses == <<(<<"title">>)>> \o VersesUpTo(12)

IsPrefixOf(s, t) == Len(s) <= Len(t) /\ s = SubSeq(t, 1, Len(s))

(* C24: print_christmas_lyrics prints the twelve verses in order and then  *)
(* returns; verse k lists exactly k gifts, gift k down to gift 1, with     *)
(* "And " only before gift 1 and only in verses 2..12; no index into gifts *)
(* or days leaves 0..11.                                                   *)
C24_TwelveVerses ==
    /\ [](/\ call.pc # "panic"
          /\ IsPrefixOf(call.out, TwelveVerses)
          /\ call.pc \in {"and", "gift"} =>
                (call.day_index \in 0..11 /\ call.gift_index \in 0..call.day_index)
          /\ call.pc = "done" => call.out = TwelveVerses)
    /\ <>(call.pc = "done")

\* the function has returned after the first gift of the twelfth verse
C24_Witness ==
    /\ call.pc = "done"
    /\ call.day_index = 12
    /\ Len(call.out) = 126
    /\ SubSeq(call.out, 125, 126) = << <<"and">>, <<"gift", "A partridge in a pear tree">> >>

----------------------------------------------------------------------------
\* the positions of s whose element satisfies p
Kept(s, p) == {i \in 1..Len(s) : Holds(p, s[i])}

\* the j-th smallest element of the set of positions K
NthOf(K, j) == CHOOSE i \in K : Cardinality({k \in K : k <= i}) = j

(* C25: filter returns a new vector holding exactly the elements of the    *)
(* slice that satisfy the predicate, in their original relative order and  *)
(* with duplicates kept; the input slice is unchanged.                     *)
C25_FilterKeepsSatisfying ==
    /\ [](call.pc = "returned" =>
            LET K == Kept(call.slice, call.predicate)
            IN  /\ Len(call.result) = Cardinality(K)
                /\ \A j \in 1..Len(call.result) :
                      call.result[j] = call.slice[NthOf(K, j)])
    /\ [][call'.slice = call.slice]_vars

\* a slice with an even number twice, around an odd one, filtered for evenness
C25_Witness ==
    /\ call.pc = "returned"
    /\ call.slice = <<2, 1, 2, 4>>
    /\ call.predicate.kind = "is_even"
    /\ call.result = <<2, 2, 4>>

----------------------------------------------------------------------------
\* the line with every run of whitespace replaced by one space and the runs at
\* both ends removed; pending is TRUE when a run was passed after a token
RECURSIVE CollapseFrom(_, _, _)
CollapseFrom(s, pending, acc) ==
    IF s = <<>> THEN acc
    ELSE IF s[1] \in {9, 10, 11, 12, 13, 32}
         THEN CollapseFrom(Tail(s), acc # <<>>, acc)
         ELSE CollapseFrom(Tail(s), FALSE,
                           acc \o (IF pending THEN <<32>> ELSE <<>>) \o <<s[1]>>)

\* for every line, the lines that differ from it in whitespace only
SameTokens ==
    LET collapsed == [l \in Lines |-> CollapseFrom(l, FALSE, <<>>)]
    IN  [l \in Lines |-> {m \in Lines : collapsed[m] = collapsed[l]}]

\* "\tAdd Bob\tto  Sales \n"
PaddedAdd == HT \o TokAdd \o SP \o Bob \o HT \o TokTo \o SP \o SP \o Sales \o SP \o NL

(* C26: whitespace around a line and the amount of whitespace between its  *)
(* tokens do not matter: a line that differs from the line read in         *)
(* whitespace only has the same words, is dispatched to the same arm with  *)
(* the same arguments, and would leave the same store and print the same   *)
(* lines.                                                                  *)
C26_WhitespaceInsensitive ==
    [][ arm' # "None" =>
          \A m \in SameTokens[input'] :
              /\ Words[m] = words'
              /\ Match(Words[m]) = arm'
              /\ arm' = "Add" =>
                    LET r == AddArm(departments, Words[m][2], Words[m][4])
                    IN  departments' = r.store /\ output' = r.out
              /\ arm' = "ListOne" =>
                    /\ departments' = departments
                    /\ output' = ListOneArm(departments, Words[m][2]).out
              /\ arm' \in {"ListAll", "Quit", "Invalid"} => departments' = departments ]_vars

\* the padded Add line appended Bob to Sales behind the Bob of the plain line
C26_Witness ==
    /\ arm = "Add"
    /\ input = PaddedAdd
    /\ Cardinality(SameTokens[input]) = 2
    /\ departments = [d \in {Sales} |-> <<Bob, Bob>>]

(* C27: the store only grows: no step removes a department or removes or   *)
(* reorders an employee; each department's sequence before a step is a     *)
(* prefix of its sequence after; only an Add step lengthens one, by one    *)
(* element and for one department.                                         *)
C27_StoreOnlyGrows ==
    [][ /\ \A d \in DOMAIN departments :
              /\ d \in DOMAIN departments'
              /\ IsPrefixOf(departments[d], departments'[d])
        /\ departments' # departments =>
              /\ arm' = "Add"
              /\ \E d \in DOMAIN departments' :
                    /\ Len(departments'[d]) = Len(Stored(d)) + 1
                    /\ \A o \in DOMAIN departments' \ {d} :
                          o \in DOMAIN departments /\ departments'[o] = departments[o] ]_vars

\* an Add lengthened one of two departments to two employees
C27_Witness ==
    /\ arm = "Add"
    /\ Cardinality(DOMAIN departments) = 2
    /\ Len(departments[words[4]]) = 2
    /\ Len(history) = 3

\* a single non-empty token: no whitespace character in it
IsToken(t) == t # <<>> /\ \A i \in 1..Len(t) : ~IsWhitespace(t[i])

(* C28: every department name and every employee name in the store is a    *)
(* single non-empty token without whitespace; no key and no employee is    *)
(* the empty string.                                                       *)
C28_NamesAreTokens ==
    \A d \in DOMAIN departments :
        /\ IsToken(d)
        /\ \A i \in 1..Len(departments[d]) : IsToken(departments[d][i])

\* the padded Add line created the third department of the store
C28_Witness ==
    /\ arm = "Add"
    /\ input = PaddedAdd
    /\ Cardinality(DOMAIN departments) = 3
    /\ departments[Sales] = <<Bob>>

----------------------------------------------------------------------------
\* every line of the pipe has been read and the loop is still running
InputEnded == piped /\ pos = Len(stdin) /\ state = "Running"

(* C29: the end of the input is no read failure: a read at the end of the  *)
(* pipe succeeds with zero bytes, the empty line has no words and is       *)
(* dispatched as Invalid, the usage line is printed, the store is kept and *)
(* the loop stays Running, and so on every later read: once the input has  *)
(* ended without a Quit the loop is never Terminated, short of a failing   *)
(* read.                                                                   *)
C29_EndOfInputLoops ==
    /\ [][ (InputEnded /\ ~panicked') =>
              /\ input' = <<>>
              /\ words' = <<>>
              /\ arm' = "Invalid"
              /\ output' = << <<"usage", <<>>>> >>
              /\ state' = "Running"
              /\ pos' = pos
              /\ departments' = departments ]_vars
    /\ [](InputEnded => [](state = "Running" \/ panicked))

\* the second read after the end of a pipe that held an Add and no Quit
C29_Witness ==
    /\ InputEnded
    /\ Len(stdin) >= 1
    /\ departments # EmptyMap
    /\ input = <<>>
    /\ arm = "Invalid"
    /\ repeated
    /\ ~panicked

----------------------------------------------------------------------------
(* C30: in List All every lookup departments[department] uses a key the    *)
(* map holds at that moment, so the arm never panics, on the empty store   *)
(* either: it prints a section for keys of the store only and leaves the   *)
(* loop Running.                                                           *)
C30_ListAllLookupsSucceed ==
    [][ arm' = "ListAll" =>
          /\ ~IndexPanicked(output')
          /\ Range(Printed(output', "department")) \subseteq DOMAIN departments
          /\ Len(Printed(output', "department")) = Cardinality(DOMAIN departments)
          /\ state' = "Running" ]_vars

\* List All looked up three departments, one of them differing from another
\* in case only
C30_Witness ==
    /\ arm = "ListAll"
    /\ DOMAIN departments = {Sales, LowerSales, TokAll}
    /\ Len(Printed(output, "department")) = 3
    /\ state = "Running"

====
